---- MODULE Spec2Model ----
(***************************************************************************)
(* Graph priors (components/graph.py) and basis utilities (utils/basis.py) *)
(* of the network GLM.                                                     *)
(*                                                                         *)
(* Conventions.                                                            *)
(*  - A Python string whose characters matter is a sequence of one-        *)
(*    character strings; a dictionary is a function whose DOMAIN is its    *)
(*    key set; a numpy array is a function on 0..n-1 (0-based, as in the   *)
(*    code); a matrix is an array of rows.                                 *)
(*  - A call ends in a record [kind |-> "return", value |-> v] or          *)
(*    [kind |-> "raise", exc |-> class, msg |-> text].                     *)
(*  - A probability is represented by its class: P0 (exactly 0), P1        *)
(*    (exactly 1) or PIn (strictly between); a uniform draw u in [0,1)     *)
(*    satisfies u < p never, always, or either way respectively.           *)
(***************************************************************************)
EXTENDS Integers, Sequences, FiniteSets, TLC

VARIABLES model, graph, exc, smpl,      \* graph priors
          call, outcome,                \* basis constructors
          stim, basis, fstim            \* convolution

vars == <<model, graph, exc, smpl, call, outcome, stim, basis, fstim>>
graphVars == <<model, graph, exc, smpl>>
basisVars == <<call, outcome>>
convVars == <<stim, basis, fstim>>

None == [kind |-> "None"]

(***************************************************************************)
(* Bounds                                                                  *)
(***************************************************************************)
\* largest number of SBM clusters prms['R'] tried
MaxR == 2

\* largest n_eye, n_exp and n_cos tried
MaxNBas == 2

\* largest number of rows of a basis and of elements of f tried in
\* project_onto_basis
MaxProjRows == 3

\* largest number of columns of a basis tried in project_onto_basis
MaxProjCols == 2

\* largest number T of time bins of a stimulus tried
MaxT == 3

\* largest number D of stimulus dimensions tried
MaxD == 2

\* largest length R of an impulse response tried
MaxImpulse == 2

\* largest number B of basis functions tried in convolve_with_basis
MaxB == 2

\* model['N'] as set by the synthetic test
N_test == 2

\* n_pts, the number of points at which a basis is evaluated
n_pts == 100

(***************************************************************************)
(* Strings                                                                 *)
(***************************************************************************)
UpperCase == <<"A","B","C","D","E","F","G","H","I","J","K","L","M",
               "N","O","P","Q","R","S","T","U","V","W","X","Y","Z">>
LowerCase == <<"a","b","c","d","e","f","g","h","i","j","k","l","m",
               "n","o","p","q","r","s","t","u","v","w","x","y","z">>

\* str.lower() on one character
lower_ch(c) ==
    IF \E i \in 1..Len(UpperCase) : UpperCase[i] = c
    THEN LowerCase[CHOOSE i \in 1..Len(UpperCase) : UpperCase[i] = c]
    ELSE c

\* str.lower()
lower_no_fold(s) == s
lower(s) == [i \in 1..Len(s) |-> lower_ch(s[i])]

s_complete == <<"c","o","m","p","l","e","t","e">>
s_erdos_renyi == <<"e","r","d","o","s","_","r","e","n","y","i">>
s_erdosrenyi == <<"e","r","d","o","s","r","e","n","y","i">>
s_sbm == <<"s","b","m">>

\* values of model['network']['graph']['type'] tried
GraphTypeStrings ==
    { s_complete, s_erdos_renyi, s_erdosrenyi, s_sbm,
      <<"C","o","m","p","l","e","t","e">>,
      <<"C","O","M","P","L","E","T","E">>,
      <<"E","r","d","o","s","_","R","e","n","y","i">>,
      <<"E","r","d","o","s","R","e","n","y","i">>,
      <<"E","R","D","O","S","R","E","N","Y","I">>,
      <<"S","B","M">>,
      <<"s","B","m">>,
      <<"e","r","d","o","s","-","r","e","n","y","i">>,
      <<"e","r">>,
      <<"s","b","m"," ">>,
      <<"c","o","m","p","l","e","t","e","d">>,
      <<"f","u","l","l">>,
      << >> }

(***************************************************************************)
(* Probabilities and random draws                                          *)
(***************************************************************************)
P0 == "0"
PIn == "in(0,1)"
P1 == "1"
Prob == {P0, PIn, P1}

\* the values (np.random.rand() < p) can take
rand_lt(p) == IF p = P0 THEN {FALSE} ELSE IF p = P1 THEN {TRUE} ELSE {TRUE, FALSE}

\* ndarray.astype(np.int8) on a boolean
astype_int8(b) == IF b THEN 1 ELSE 0

\* the N x N arrays (np.random.rand(N, N) < p).astype(np.int8) can be
rand_lt_matrix(n, p) ==
    { [i \in 0..n-1 |-> [j \in 0..n-1 |-> astype_int8(m[i][j])]] :
        m \in { mm \in [0..n-1 -> [0..n-1 -> BOOLEAN]] :
                  \A i, j \in 0..n-1 : mm[i][j] \in rand_lt(p[i][j]) } }

\* np.random.dirichlet(alpha0): a point of the simplex with one coordinate
\* per entry of alpha0, every coordinate positive
dirichlet(alpha0) ==
    LET k == Cardinality(DOMAIN alpha0)
    IN  { [i \in 0..k-1 |-> IF k = 1 THEN P1 ELSE PIn] }

\* np.random.beta(b0, b1, (rows, cols)): entries strictly inside (0,1)
beta(b0, b1, rows, cols) == { [i \in 0..rows-1 |-> [j \in 0..cols-1 |-> PIn]] }

\* np.random.choice(a, size=size, p=p): indices of positive probability
choice(a, size, p) ==
    IF Cardinality(DOMAIN p) # a
    THEN {}
    ELSE [0..size-1 -> { k \in 0..a-1 : p[k] # P0 }]

(***************************************************************************)
(* components/graph.py                                                     *)
(***************************************************************************)
\* a named theano variable; str() of it is its name
TVar(name, type) == [name |-> name, type |-> type]
str(v) == v.name

\* model dictionaries tried: model['N'] and model['network']['graph']
GraphPrms ==
    { [type |-> t, rho |-> r, R |-> k, b0 |-> 1, b1 |-> 1,
       alpha0 |-> [i \in 0..k-1 |-> 1]] :
        t \in GraphTypeStrings, r \in Prob, k \in 1..MaxR }
    \cup
    { [type |-> t, rho |-> r, rho_refractory |-> rr, R |-> 1, b0 |-> 1, b1 |-> 1,
       alpha0 |-> [i \in 0..0 |-> 1]] :
        t \in GraphTypeStrings, r \in Prob, rr \in Prob }

Models == { [N |-> N_test, network |-> [graph |-> p]] : p \in GraphPrms }

CompleteGraphModel(m) ==
    [class |-> "CompleteGraphModel",
     A |-> [i \in 0..m.N-1 |-> [j \in 0..m.N-1 |-> 1]],
     log_p |-> 0]

ErdosRenyiGraphModel(m) ==
    LET prms == m.network.graph
        n == m.N
    IN  [class |-> "ErdosRenyiGraphModel",
         N |-> n,
         rho |-> [i \in 0..n-1 |-> [j \in 0..n-1 |->
                    IF i = j /\ "rho_refractory" \in DOMAIN prms
                    THEN prms.rho_refractory
                    ELSE prms.rho]],
         A |-> TVar("A", "bmatrix")]

StochasticBlockGraphModel(m) ==
    LET prms == m.network.graph
    IN  [class |-> "StochasticBlockGraphModel",
         N |-> m.N,
         R |-> prms.R,
         B |-> TVar("B", "dmatrix"),
         Y |-> TVar("Y", "lvector"),
         alpha |-> TVar("alpha", "dvector"),
         b0 |-> prms.b0,
         b1 |-> prms.b1,
         alpha0 |-> prms.alpha0,
         A |-> TVar("A", "bmatrix")]

Return(v) == [kind |-> "return", value |-> v]
Raise(cls, msg) == [kind |-> "raise", exc |-> cls, msg |-> msg]

create_graph_component(m) ==
    LET type == lower(m.network.graph.type)
    IN  IF type = s_complete THEN Return(CompleteGraphModel(m))
        ELSE IF type = s_erdos_renyi \/ type = s_erdosrenyi
             THEN Return(ErdosRenyiGraphModel(m))
        ELSE IF type = s_sbm THEN Return(StochasticBlockGraphModel(m))
        ELSE Raise("Exception", "Unrecognized graph model")

\* ErdosRenyiGraphModel.get_variables / StochasticBlockGraphModel.get_variables
get_variables(g) ==
    IF g.class = "ErdosRenyiGraphModel"
    THEN [k \in {str(g.A)} |-> g.A]
    ELSE [k \in {str(g.A), str(g.Y), str(g.B), str(g.alpha)} |->
            IF k = str(g.A) THEN g.A
            ELSE IF k = str(g.Y) THEN g.Y
            ELSE IF k = str(g.B) THEN g.B
            ELSE g.alpha]

\* the dictionaries ErdosRenyiGraphModel.sample can return
ErdosRenyi_sample(g) ==
    { [k \in {str(g.A)} |-> A] : A \in rand_lt_matrix(g.N, g.rho) }

\* self.pA.eval({self.B: B, self.Y: Y}): pA = B[Ym, Ym^T], Ym[i,j] = Y[i]
pA_eval(g, B, Y) == [i \in 0..g.N-1 |-> [j \in 0..g.N-1 |-> B[Y[i]][Y[j]]]]

SBM_dict_without_alpha(g, A, Y, B, alpha) ==
    [k \in {str(g.A), str(g.Y), str(g.B)} |->
        IF k = str(g.A) THEN A
        ELSE IF k = str(g.Y) THEN Y
        ELSE B]

SBM_dict(g, A, Y, B, alpha) ==
    [k \in {str(g.A), str(g.Y), str(g.B), str(g.alpha)} |->
        IF k = str(g.A) THEN A
        ELSE IF k = str(g.Y) THEN Y
        ELSE IF k = str(g.B) THEN B
        ELSE alpha]

\* the dictionaries StochasticBlockGraphModel.sample can return
SBM_sample(g) ==
    UNION { UNION { UNION {
        { SBM_dict(g, A, Y, B, alpha) : A \in rand_lt_matrix(g.N, pA_eval(g, B, Y)) }
        : Y \in choice(g.R, g.N, alpha) }
        : B \in beta(g.b0, g.b1, g.R, g.R) }
        : alpha \in dirichlet(g.alpha0) }

sample(g) ==
    IF g.class = "ErdosRenyiGraphModel" THEN ErdosRenyi_sample(g) ELSE SBM_sample(g)

(***************************************************************************)
(* The graph-prior state machine: build the component, then sample it.     *)
(***************************************************************************)
IdleBasis == call = None /\ outcome = None
IdleConv == stim = None /\ basis = None /\ fstim = None
IdleGraph == model = None /\ graph = None /\ exc = None /\ smpl = None

InitGraph ==
    /\ model \in Models
    /\ graph = None
    /\ exc = None
    /\ smpl = None
    /\ IdleBasis
    /\ IdleConv

CreateGraphComponent ==
    /\ graph = None
    /\ exc = None
    /\ LET r == create_graph_component(model)
       IN  IF r.kind = "return"
           THEN graph' = r.value /\ exc' = None
           ELSE graph' = None /\ exc' = r
    /\ UNCHANGED <<model, smpl, basisVars, convVars>>

HasSampler(g) ==
    /\ g # None
    /\ g.class \in {"ErdosRenyiGraphModel", "StochasticBlockGraphModel"}

Sample ==
    /\ HasSampler(graph)
    /\ smpl' \in sample(graph)
    /\ UNCHANGED <<model, graph, exc, basisVars, convVars>>

NextGraph == CreateGraphComponent \/ Sample

SpecGraph == InitGraph /\ [][NextGraph]_vars

(***************************************************************************)
(* Claims about the graph priors                                           *)
(***************************************************************************)
\* two characters are the same letter up to case
SameLetter(a, b) ==
    \/ a = b
    \/ \E i \in 1..Len(UpperCase) : {a, b} = {UpperCase[i], LowerCase[i]}

\* two strings are equal up to the case of their letters
EqualIgnoringCase(s, t) ==
    /\ Len(s) = Len(t)
    /\ \A i \in 1..Len(s) : SameLetter(s[i], t[i])

ClassOf(g) == IF g = None THEN "None" ELSE g.class

Created == graph # None \/ exc # None

\* C1: create_graph_component picks the prior from the type string compared
\* case-insensitively: 'complete' gives a CompleteGraphModel, 'erdos_renyi'
\* or 'erdosrenyi' an ErdosRenyiGraphModel, 'sbm' a StochasticBlockGraphModel,
\* and any other string raises 'Unrecognized graph model' and yields no
\* component.
C1_GraphTypeDispatch ==
    Created =>
        LET t == model.network.graph.type
            isComplete == EqualIgnoringCase(t, s_complete)
            isER == EqualIgnoringCase(t, s_erdos_renyi) \/ EqualIgnoringCase(t, s_erdosrenyi)
            isSBM == EqualIgnoringCase(t, s_sbm)
        IN  /\ isComplete => ClassOf(graph) = "CompleteGraphModel" /\ exc = None
            /\ isER => ClassOf(graph) = "ErdosRenyiGraphModel" /\ exc = None
            /\ isSBM => ClassOf(graph) = "StochasticBlockGraphModel" /\ exc = None
            /\ ~(isComplete \/ isER \/ isSBM) =>
                  /\ graph = None
                  /\ exc = Raise("Exception", "Unrecognized graph model")

\* a mixed-case type string has been dispatched to the SBM
C1_Witness ==
    /\ model.network.graph.type = <<"s","B","m">>
    /\ ClassOf(graph) = "StochasticBlockGraphModel"

IsBinaryMatrix(A, n) ==
    /\ DOMAIN A = 0..n-1
    /\ \A i \in 0..n-1 : DOMAIN A[i] = 0..n-1 /\ \A j \in 0..n-1 : A[i][j] \in {0, 1}

\* C6: whatever samples were drawn before, the dictionary returned by
\* sample() has exactly the keys of get_variables() (A for Erdos-Renyi; A, Y,
\* B, alpha for the SBM); the sampled A is N x N with entries in {0,1}; for
\* the SBM, Y has length N with entries in 0..R-1 and B is R x R.
C6_SampleMatchesVariables ==
    smpl # None =>
        /\ DOMAIN smpl = DOMAIN get_variables(graph)
        /\ IsBinaryMatrix(smpl["A"], model.N)
        /\ graph.class = "ErdosRenyiGraphModel" => DOMAIN smpl = {"A"}
        /\ graph.class = "StochasticBlockGraphModel" =>
              LET R == model.network.graph.R
              IN  /\ DOMAIN smpl = {"A", "Y", "B", "alpha"}
                  /\ DOMAIN smpl["Y"] = 0..model.N-1
                  /\ \A i \in 0..model.N-1 : smpl["Y"][i] \in 0..R-1
                  /\ DOMAIN smpl["B"] = 0..R-1
                  /\ \A i \in 0..R-1 : DOMAIN smpl["B"][i] = 0..R-1

\* an SBM sample whose nodes fall in two different blocks and whose
\* adjacency matrix has both an edge and a non-edge
C6_Witness ==
    /\ smpl # None
    /\ ClassOf(graph) = "StochasticBlockGraphModel"
    /\ smpl["Y"][0] # smpl["Y"][1]
    /\ \E i, j \in 0..model.N-1 : smpl["A"][i][j] # smpl["A"][j][i]

(***************************************************************************)
(* utils/basis.py                                                          *)
(***************************************************************************)
s_exp == <<"e","x","p">>
s_cosine == <<"c","o","s","i","n","e">>
s_file == <<"f","i","l","e">>

\* values of prms['type'] tried
BasisTypeStrings ==
    { s_exp, s_cosine, s_file,
      <<"E","x","p">>, <<"E","X","P">>,
      <<"C","o","s","i","n","e">>, <<"C","O","S","I","N","E">>,
      <<"F","i","l","e">>, <<"F","I","L","E">>,
      <<"e","x","p","o">>, <<"c","o","s">>, <<"f","i","l","e","s">>,
      <<"s","i","n","e">>, << >> }

\* a Python str used as a value (a file name)
PyStr(name) == [pytype |-> "str", name |-> name]

\* the files os.path.exists and scipy.io.loadmat can see: one that does not
\* exist, one holding a matrix under the key 'basis', one without that key
FileNames == {"missing.mat", "basis.mat", "other.mat"}
path_exists(fname) == fname.name \in {"basis.mat", "other.mat"}
StoredBasis == [pytype |-> "ndarray", maker |-> "loadmat", rows |-> n_pts, cols |-> 1]
loadmat(fname) ==
    IF fname.name = "basis.mat"
    THEN [basis |-> StoredBasis, header |-> PyStr("MATLAB 5.0 MAT-file")]
    ELSE [header |-> PyStr("MATLAB 5.0 MAT-file")]

\* the names bound at module level of utils/basis.py
ModuleGlobals ==
    { "np", "scipy", "os", "create_basis", "load_basis_from_file",
      "create_cosine_basis", "create_exp_basis", "convolve_with_basis",
      "project_onto_basis" }

\* whether reading the name succeeds in a function whose bound locals are
\* the given set
NameDefined(name, locals) == name \in locals \cup ModuleGlobals

\* x[key] for a dict x or a str x and a str key
subscript(x, key) ==
    IF x.pytype = "dict"
    THEN IF key \in DOMAIN x THEN Return(x[key]) ELSE Raise("KeyError", key)
    ELSE Raise("TypeError", "string indices must be integers")

\* the prms dictionaries tried
BasisPrms ==
    { [pytype |-> "dict", type |-> t, fname |-> PyStr(f),
       n_eye |-> ne, n_exp |-> nx, n_cos |-> nx, a |-> 1, b |-> 1,
       orth |-> o, norm |-> TRUE] :
        t \in BasisTypeStrings, f \in FileNames,
        ne \in 0..MaxNBas, nx \in 1..MaxNBas, o \in BOOLEAN }

\* a matrix of reals is kept as what the callers and the claims read of it:
\* who built it, its rows, its columns before orthonormalization, and what
\* was applied to the columns
NDArray(maker, rows, cols, n_eye, orth, normalized) ==
    [pytype |-> "ndarray", maker |-> maker, rows |-> rows, cols |-> cols,
     n_eye |-> n_eye, orth |-> orth, normalized |-> normalized]

load_basis_from_file(prms) ==
    LET r == subscript(prms, "fname")
    IN  IF r.kind = "raise" THEN r
        ELSE LET fname == r.value
             IN  IF ~path_exists(fname)
                 THEN Raise("Exception", "Invalid basis file: %s")
                 ELSE LET bas_dict == loadmat(fname)
                      IN  IF "basis" \notin DOMAIN bas_dict
                          THEN Raise("Exception", "Invalid basis file: %s")
                          ELSE Return(bas_dict["basis"])

create_cosine_basis(prms) ==
    LET n_cos == prms.n_cos
        n_eye == prms.n_eye
        n_bas == n_eye + n_cos
    IN  Return(NDArray("create_cosine_basis", n_pts, n_bas, n_eye, prms.orth,
                       IF prms.norm THEN "unit integral" ELSE "none"))

create_exp_basis(prms) ==
    LET n_exp == prms.n_exp
        n_eye == prms.n_eye
        locals == {"prms", "n_pts", "n_exp", "n_eye"}
    IN  IF ~NameDefined("n_cos", locals)
        THEN Raise("NameError", "global name 'n_cos' is not defined")
        ELSE Return(NDArray("create_exp_basis", n_pts, n_eye + n_exp, n_eye,
                            prms.orth, "unit norm"))

create_basis(prms) ==
    LET type == lower(prms.type)
    IN  IF type = s_exp THEN create_exp_basis(prms)
        ELSE IF type = s_cosine THEN create_cosine_basis(prms)
        ELSE IF type = s_file
             THEN IF path_exists(prms.fname)
                  THEN load_basis_from_file(prms.fname)
                  ELSE Raise("UnboundLocalError",
                             "local variable 'basis' referenced before assignment")
        ELSE Raise("Exception", "Unrecognized basis type: %s")

\* np.size of a vector
size(f) == Cardinality(DOMAIN f)

project_onto_basis(f, bas) ==
    LET R == bas.rows
        B == bas.cols
        locals == {"f", "basis", "R", "B", "Q"}
    IN  IF size(f) # R
        THEN Raise("AssertionError", "Function is not the same size as the basis!")
        ELSE IF ~NameDefined("obasis", locals)
             THEN Raise("NameError", "global name 'obasis' is not defined")
             ELSE Return([pytype |-> "ndarray", maker |-> "project_onto_basis",
                          rows |-> B, cols |-> 1])

(***************************************************************************)
(* The basis state machine: a call of a function of utils/basis.py with    *)
(* inputs drawn at the start; the step runs it and records how it ended.   *)
(***************************************************************************)
\* the (f, basis) pairs tried in project_onto_basis
ProjectionInputs ==
    UNION { { [op |-> "project_onto_basis", f |-> f,
               basis |-> [pytype |-> "ndarray", maker |-> "caller",
                          rows |-> R, cols |-> B]] :
                f \in [0..n-1 -> {0, 1}] } :
            n \in 0..MaxProjRows, R \in 1..MaxProjRows, B \in 1..MaxProjCols }

BasisCalls ==
    { [op |-> o, prms |-> prms] :
        o \in {"create_basis", "create_exp_basis", "create_cosine_basis",
               "load_basis_from_file"},
        prms \in BasisPrms }
    \cup ProjectionInputs

InitBasis ==
    /\ call \in BasisCalls
    /\ outcome = None
    /\ IdleGraph
    /\ IdleConv

Pending(op) == call.op = op /\ outcome = None

CallCreateBasis ==
    /\ Pending("create_basis")
    /\ outcome' = create_basis(call.prms)
    /\ UNCHANGED <<call, graphVars, convVars>>

CallCreateExpBasis ==
    /\ Pending("create_exp_basis")
    /\ outcome' = create_exp_basis(call.prms)
    /\ UNCHANGED <<call, graphVars, convVars>>

CallCreateCosineBasis ==
    /\ Pending("create_cosine_basis")
    /\ outcome' = create_cosine_basis(call.prms)
    /\ UNCHANGED <<call, graphVars, convVars>>

CallLoadBasisFromFile ==
    /\ Pending("load_basis_from_file")
    /\ outcome' = load_basis_from_file(call.prms)
    /\ UNCHANGED <<call, graphVars, convVars>>

CallProjectOntoBasis ==
    /\ Pending("project_onto_basis")
    /\ outcome' = project_onto_basis(call.f, call.basis)
    /\ UNCHANGED <<call, graphVars, convVars>>

NextBasis ==
    \/ CallCreateBasis
    \/ CallCreateExpBasis
    \/ CallCreateCosineBasis
    \/ CallLoadBasisFromFile
    \/ CallProjectOntoBasis

SpecBasis == InitBasis /\ [][NextBasis]_vars

(***************************************************************************)
(* Claims about the basis constructors                                     *)
(***************************************************************************)
Called(op) == call.op = op /\ outcome # None

\* C2: create_basis returns, for a type that is 'exp', 'cosine' or 'file' up
\* to case, the basis made by create_exp_basis, create_cosine_basis or stored
\* under 'basis' in the file prms['fname'], and raises 'Unrecognized basis
\* type' exactly when the type is none of the three.
C2_CreateBasisDispatch ==
    Called("create_basis") =>
        LET t == call.prms.type
            isExp == EqualIgnoringCase(t, s_exp)
            isCosine == EqualIgnoringCase(t, s_cosine)
            isFile == EqualIgnoringCase(t, s_file)
        IN  /\ isExp => outcome.kind = "return" /\ outcome.value.maker = "create_exp_basis"
            /\ isCosine => outcome.kind = "return" /\ outcome.value.maker = "create_cosine_basis"
            /\ isFile => outcome.kind = "return" /\ outcome.value.maker = "loadmat"
            /\ (outcome = Raise("Exception", "Unrecognized basis type: %s"))
                  <=> ~(isExp \/ isCosine \/ isFile)

\* C4: create_exp_basis with orth false, n_eye >= 0 and n_exp >= 1 returns a
\* 100 x (n_eye + n_exp) matrix: n_eye identity columns, then n_exp decaying
\* exponentials, every column of unit Euclidean norm.
C4_ExpBasisReturned ==
    (Called("create_exp_basis") /\ ~call.prms.orth
        /\ call.prms.n_eye >= 0 /\ call.prms.n_exp >= 1) =>
        /\ outcome.kind = "return"
        /\ outcome.value.rows = 100
        /\ outcome.value.cols = call.prms.n_eye + call.prms.n_exp
        /\ outcome.value.n_eye = call.prms.n_eye
        /\ outcome.value.normalized = "unit norm"

\* C5: project_onto_basis with an R x B basis returns a B x 1 vector when f
\* has exactly R elements, and fails the assertion 'Function is not the same
\* size as the basis!' when it has not.
C5_ProjectionReturned ==
    Called("project_onto_basis") =>
        IF size(call.f) = call.basis.rows
        THEN /\ outcome.kind = "return"
             /\ outcome.value.rows = call.basis.cols
             /\ outcome.value.cols = 1
        ELSE outcome = Raise("AssertionError",
                             "Function is not the same size as the basis!")

(***************************************************************************)
(* utils/basis.py: convolve_with_basis                                     *)
(***************************************************************************)
\* a two-dimensional numpy array: its shape and its entries
Array2(r, c, data) == [shape |-> <<r, c>>, data |-> data]

\* the sum of term(k) for k in lo..hi
RECURSIVE Sum(_, _, _)
Sum(term(_), lo, hi) == IF lo > hi THEN 0 ELSE term(lo) + Sum(term, lo + 1, hi)

\* np.vstack((np.zeros((1,B)), basis))
vstack_zeros_below(bas) ==
    LET R == bas.shape[1]
        B == bas.shape[2]
    IN  Array2(R + 1, B,
               [k \in 0..R |-> [b \in 0..B-1 |-> IF k = R THEN 0 ELSE bas.data[k][b]]])

vstack_zeros(bas) ==
    LET R == bas.shape[1]
        B == bas.shape[2]
    IN  Array2(R + 1, B,
               [k \in 0..R |-> [b \in 0..B-1 |-> IF k = 0 THEN 0 ELSE bas.data[k-1][b]]])

\* np.reshape(basis[:,b], [rows, 1])
column(bas, b, rows) ==
    Array2(rows, 1, [k \in 0..rows-1 |-> [j \in 0..0 |-> bas.data[k][b]]])

Max(a, b) == IF a >= b THEN a ELSE b
Min(a, b) == IF a <= b THEN a ELSE b

\* scipy.signal.convolve2d(in1, in2, 'full'): out[i,j] is the sum of
\* in1[m,n] * in2[i-m,j-n] over the m, n for which both indices exist
convolve2d_full(in1, in2) ==
    LET M1 == in1.shape[1]
        N1 == in1.shape[2]
        M2 == in2.shape[1]
        N2 == in2.shape[2]
        cell(i, j) ==
            LET inner(m) ==
                    LET t(n) == in1.data[m][n] * in2.data[i-m][j-n]
                    IN  Sum(t, Max(0, j - N2 + 1), Min(N1 - 1, j))
            IN  Sum(inner, Max(0, i - M2 + 1), Min(M1 - 1, i))
    IN  Array2(M1 + M2 - 1, N1 + N2 - 1,
               [i \in 0..M1+M2-2 |-> [j \in 0..N1+N2-2 |-> cell(i, j)]])

convolve_with_basis(st, bas) ==
    LET T == st.shape[1]
        D == st.shape[2]
        R == bas.shape[1]
        B == bas.shape[2]
        padded == vstack_zeros(bas)
        conv == [b \in 0..B-1 |-> convolve2d_full(st, column(padded, b, R + 1))]
        \* fstim[:,:,b] = convolve2d(...)[:T,:]
    IN  [shape |-> <<T, D, B>>,
         data |-> [t \in 0..T-1 |-> [d \in 0..D-1 |-> [b \in 0..B-1 |->
                     conv[b].data[t][d]]]]]

\* the r x c arrays with at most two entries that are not zero, the first
\* being v or absent and the second w or absent
SparseArrays(r, c, v, w) ==
    LET cells == (0..r-1) \X (0..c-1)
    IN  { Array2(r, c, [i \in 0..r-1 |-> [j \in 0..c-1 |->
                IF <<i, j>> = p THEN x ELSE IF <<i, j>> = q THEN y ELSE 0]]) :
            p \in cells, q \in cells, x \in {0, v}, y \in {0, w} }

\* the stimuli and the bases tried
Stimuli == UNION { SparseArrays(T, D, 1, 1) : T \in 1..MaxT, D \in 1..MaxD }
Bases == UNION { SparseArrays(R, B, 1, 2) : R \in 1..MaxImpulse, B \in 1..MaxB }

InitConv ==
    /\ stim \in Stimuli
    /\ basis \in Bases
    /\ fstim = None
    /\ IdleGraph
    /\ IdleBasis

Convolve ==
    /\ fstim = None
    /\ fstim' = convolve_with_basis(stim, basis)
    /\ UNCHANGED <<stim, basis, graphVars, basisVars>>

NextConv == Convolve

SpecConv == InitConv /\ [][NextConv]_vars

(***************************************************************************)
(* Claims about the convolution                                            *)
(***************************************************************************)
\* the causal sum of the claim: basis[k-1,b] * stim[t-k,d] over k = 1..R
\* with t - k >= 0
CausalSum(st, bas, t, d, b) ==
    LET term(k) == IF t - k >= 0 THEN bas.data[k-1][b] * st.data[t-k][d] ELSE 0
    IN  Sum(term, 1, bas.shape[1])

\* the stimulus with 7 added to every row outside t-R..t-1
OutsideWindowChanged(st, t, R) ==
    Array2(st.shape[1], st.shape[2],
           [u \in 0..st.shape[1]-1 |-> [d \in 0..st.shape[2]-1 |->
              IF u \in (t-R)..(t-1) THEN st.data[u][d] ELSE st.data[u][d] + 7]])

====
